---- MODULE Spec2Model ----
(***************************************************************************)
(* Model of src-tauri/src/lib.rs: the entry point run() of a Tauri         *)
(* application.  run() is one method chain                                 *)
(*                                                                         *)
(*   Builder::default().plugin(shell).setup(hook).run(ctx).expect(msg)     *)
(*                                                                         *)
(* and the hook is the closure of lines 5-13.  The chain and the closure   *)
(* are translated statement by statement.  The framework the chain calls   *)
(* into (window creation, the invocation of the setup hook, the event      *)
(* loop, the outcome of run) is the environment of this code: it is        *)
(* modelled as the nondeterministic steps Fw... below, which choose among  *)
(* the outcomes the API used by the code allows (a Result is Ok or Err, a  *)
(* window may or may not exist, a FnOnce hook is called at most once).     *)
(***************************************************************************)
EXTENDS Naturals, Sequences, FiniteSets

\* Bound on the number of events the event loop processes in a run.
MaxEvents == 2

\* Window identifiers the framework may have registered.
Labels == {"main", "settings", "splash"}

\* Option::None / "no value yet"; not a window label and not a Result.
None == "none"

\* The outcomes of a call that returns a Result.
Results == {"Ok", "Err"}

\* ------------------------------------------------------------------------
\* The program text
\* ------------------------------------------------------------------------

\* Mutant of BuilderChain: the plugin is registered after the setup hook.
BuilderChain_SetupFirst == <<"default", "setup", "plugin", "run", "expect">>

\* The calls of the method chain of run(), in source order (lines 3-15).
BuilderChain == <<"default", "plugin", "setup", "run", "expect">>

\* Mutant of LookupLabel: another window is looked up.
LookupLabel_Other == "settings"

\* The identifier passed to app.get_webview_window (line 7).
LookupLabel == "main"

\* Mutant of ThenBlock: set_focus is requested before show.
ThenBlock_Swapped == <<"set_focus", "show">>

\* Mutant of ThenBlock: the set_focus statement is missing.
ThenBlock_ShowOnly == <<"show">>

\* The statements of the body of if let Some(window) in source order
\* (lines 9-10): window.show(), then window.set_focus().
ThenBlock == <<"show", "set_focus">>

\* Mutant of StatementOutcome: window.show()?; window.set_focus()?;
StatementOutcome_Propagate(op, res) ==
    IF res = "Err" THEN "return_err" ELSE "continue"

\* Mutant of StatementOutcome: window.show().unwrap(); ...unwrap();
StatementOutcome_Unwrap(op, res) ==
    IF res = "Err" THEN "panic" ELSE "continue"

\* Mutant of StatementOutcome: if window.show().is_ok() { set_focus }
StatementOutcome_SkipOnErr(op, res) ==
    IF op = "show" /\ res = "Err" THEN "skip_rest" ELSE "continue"

\* What a statement of ThenBlock does with the Result of its call:
\* let _ = ...; (lines 9, 10) discards it and control continues with the
\* next statement.
StatementOutcome(op, res) == "continue"

\* Mutant of HookReturnValue: a missing window is reported as an error
\* (app.get_webview_window("main").ok_or(...)?).
HookReturnValue_ErrOnMiss(win) == IF win = None THEN "Err" ELSE "Ok"

\* The value of the closure's last expression, Ok(()) (line 12), whatever
\* the lookup returned.
HookReturnValue(win) == "Ok"

\* The message given to expect (line 15).
ExpectMsg == "error while running tauri application"

\* Mutant of ExpectOutcome: .unwrap(); the panic has no message of the
\* application.
ExpectOutcome_Unwrap(res, err) ==
    IF res = "Ok"
    THEN [term |-> "returned", msg |-> <<>>]
    ELSE [term |-> "panicked",
          msg |-> <<"called Result::unwrap() on an Err value", err>>]

\* Mutant of ExpectOutcome: .ok(); the error is dropped.
ExpectOutcome_Ok(res, err) == [term |-> "returned", msg |-> <<>>]

\* Result::expect (line 15): Ok yields the value and run() returns; Err(e)
\* panics with the given message followed by the error e.
ExpectOutcome(res, err) ==
    IF res = "Ok"
    THEN [term |-> "returned", msg |-> <<>>]
    ELSE [term |-> "panicked", msg |-> <<ExpectMsg, err>>]

\* ------------------------------------------------------------------------
\* State
\* ------------------------------------------------------------------------
VARIABLES
    pc,        \* index in BuilderChain of the next call of run()
    term,      \* "live" | "returned" | "panicked": how run() ended
    panicMsg,  \* the panic message <<text, error>>, <<>> while no panic
    calls,     \* the chain calls made so far, in order
    builder,   \* the builder: [built, plugins, setup]
    fw,        \* framework phase: idle|init|setup|loop|stopped|failed
    runRet,    \* the Result of Builder::run, None while it has not returned
    runErr,    \* the error inside runRet: None | "Runtime" | "Setup"
    windows,   \* labels of the webview windows registered in the framework
    visible,   \* labels of the windows that are shown
    focused,   \* label of the window that has input focus, or None
    events,    \* number of events the event loop has processed
    hookPc,    \* position in the setup closure: idle|lookup|block|ret|done
    hookCalls, \* number of invocations of the setup closure
    window,    \* the closure's window binding: None or a label
    hidx,      \* index in ThenBlock of the next statement
    hookRet,   \* the closure's return value, None while it has not returned
    log        \* the requests this code issued on window handles, in order

vars == <<pc, term, panicMsg, calls, builder, fw, runRet, runErr, windows,
          visible, focused, events, hookPc, hookCalls, window, hidx,
          hookRet, log>>

progVars == <<pc, term, panicMsg, calls, builder>>
fwVars   == <<fw, runRet, runErr, events>>
winVars  == <<windows, visible, focused>>
hookVars == <<hookPc, hookCalls, window, hidx, hookRet, log>>

Init ==
    /\ pc = 1
    /\ term = "live"
    /\ panicMsg = <<>>
    /\ calls = <<>>
    /\ builder = [built |-> FALSE, plugins |-> <<>>, setup |-> FALSE]
    /\ fw = "idle"
    /\ runRet = None
    /\ runErr = None
    /\ windows = {}
    /\ visible = {}
    /\ focused = None
    /\ events = 0
    /\ hookPc = "idle"
    /\ hookCalls = 0
    /\ window = None
    /\ hidx = 1
    /\ hookRet = None
    /\ log = <<>>

\* The next call of the chain is name.
AtCall(name) ==
    /\ term = "live"
    /\ pc <= Len(BuilderChain)
    /\ BuilderChain[pc] = name

\* ------------------------------------------------------------------------
\* run(): the method chain (lines 3-15)
\* ------------------------------------------------------------------------

\* tauri::Builder::default() (line 3): a fresh builder, no plugin and no
\* setup hook of the application registered.
BuilderDefault ==
    /\ AtCall("default")
    /\ builder' = [built |-> TRUE, plugins |-> <<>>, setup |-> FALSE]
    /\ calls' = Append(calls, "default")
    /\ pc' = pc + 1
    /\ UNCHANGED <<term, panicMsg>>
    /\ UNCHANGED <<fwVars, winVars, hookVars>>

\* .plugin(tauri_plugin_shell::init()) (line 4).
RegisterPlugin ==
    /\ AtCall("plugin")
    /\ builder.built
    /\ builder' = [builder EXCEPT !.plugins = Append(@, "shell")]
    /\ calls' = Append(calls, "plugin")
    /\ pc' = pc + 1
    /\ UNCHANGED <<term, panicMsg>>
    /\ UNCHANGED <<fwVars, winVars, hookVars>>

\* .setup(|app| { ... }) (line 5): the closure is stored, not called.
RegisterSetup ==
    /\ AtCall("setup")
    /\ builder.built
    /\ builder' = [builder EXCEPT !.setup = TRUE]
    /\ calls' = Append(calls, "setup")
    /\ pc' = pc + 1
    /\ UNCHANGED <<term, panicMsg>>
    /\ UNCHANGED <<fwVars, winVars, hookVars>>

\* .run(tauri::generate_context!()) (line 14): control passes to the
\* framework; the chain waits at expect for the Result of run.
CallRun ==
    /\ AtCall("run")
    /\ builder.built
    /\ fw = "idle"
    /\ fw' = "init"
    /\ calls' = Append(calls, "run")
    /\ pc' = pc + 1
    /\ UNCHANGED <<term, panicMsg, builder>>
    /\ UNCHANGED <<runRet, runErr, events, winVars, hookVars>>

\* .expect("error while running tauri application") (line 15), evaluated
\* when run has returned its Result.
Expect ==
    /\ AtCall("expect")
    /\ runRet # None
    /\ LET o == ExpectOutcome(runRet, runErr) IN
         /\ term' = o.term
         /\ panicMsg' = o.msg
    /\ calls' = Append(calls, "expect")
    /\ pc' = pc + 1
    /\ UNCHANGED builder
    /\ UNCHANGED <<fwVars, winVars, hookVars>>

\* ------------------------------------------------------------------------
\* The framework, between the call of run and its return (line 14)
\* ------------------------------------------------------------------------

\* The framework is executing run and the process has not panicked.
InRun == term = "live" /\ "run" \in {calls[i] : i \in 1..Len(calls)}

\* During initialization the framework creates a window, shown or hidden
\* as its configuration says.
FwCreateWindow ==
    /\ InRun
    /\ fw = "init"
    /\ \E w \in Labels \ windows, shown \in BOOLEAN :
         /\ windows' = windows \cup {w}
         /\ visible' = IF shown THEN visible \cup {w} ELSE visible
    /\ UNCHANGED <<focused, progVars, fwVars, hookVars>>

\* The framework fails to start the application: run returns Err.
FwStartFails ==
    /\ InRun
    /\ fw = "init"
    /\ fw' = "failed"
    /\ runRet' = "Err"
    /\ runErr' = "Runtime"
    /\ UNCHANGED <<events, progVars, winVars, hookVars>>

\* The framework invokes the registered setup hook (an FnOnce: it is
\* consumed by the call).  With no hook registered, initialization goes
\* on to the event loop.
FwInvokeSetup ==
    /\ InRun
    /\ fw = "init"
    /\ IF builder.setup
       THEN /\ fw' = "setup"
            /\ hookPc' = "lookup"
            /\ hookCalls' = hookCalls + 1
       ELSE /\ fw' = "loop"
            /\ UNCHANGED <<hookPc, hookCalls>>
    /\ UNCHANGED <<runRet, runErr, events, window, hidx, hookRet, log>>
    /\ UNCHANGED <<progVars, winVars>>

\* The hook has returned: on Ok the event loop starts, on Err the
\* framework gives up and run reports the setup failure.
FwSetupReturned ==
    /\ InRun
    /\ fw = "setup"
    /\ hookPc = "done"
    /\ IF hookRet = "Ok"
       THEN fw' = "loop" /\ UNCHANGED <<runRet, runErr>>
       ELSE fw' = "failed" /\ runRet' = "Err" /\ runErr' = "Setup"
    /\ UNCHANGED <<events, progVars, winVars, hookVars>>

\* The event loop processes one event; the user or the framework closes,
\* hides or focuses a window.
FwEvent ==
    /\ InRun
    /\ fw = "loop"
    /\ events < MaxEvents
    /\ events' = events + 1
    /\ \E w \in windows :
         \/ /\ windows' = windows \ {w}
            /\ visible' = visible \ {w}
            /\ focused' = IF focused = w THEN None ELSE focused
         \/ /\ w \in visible
            /\ visible' = visible \ {w}
            /\ focused' = IF focused = w THEN None ELSE focused
            /\ UNCHANGED windows
         \/ /\ w \in visible
            /\ focused' = w
            /\ UNCHANGED <<windows, visible>>
    /\ UNCHANGED <<fw, runRet, runErr, progVars, hookVars>>

\* The event loop terminates and run returns Ok.
FwLoopExit ==
    /\ InRun
    /\ fw = "loop"
    /\ fw' = "stopped"
    /\ runRet' = "Ok"
    /\ UNCHANGED <<runErr, events, progVars, winVars, hookVars>>

\* ------------------------------------------------------------------------
\* The setup closure (lines 5-13)
\* ------------------------------------------------------------------------

\* app.get_webview_window(label): Some(window) when a window is registered
\* under the label, None otherwise.
GetWebviewWindow(label) == IF label \in windows THEN label ELSE None

\* The hook is running on the framework's thread.
InHook == InRun /\ fw = "setup"

\* if let Some(window) = app.get_webview_window("main") (line 7).
HookLookup ==
    /\ InHook
    /\ hookPc = "lookup"
    /\ window' = GetWebviewWindow(LookupLabel)
    /\ hidx' = 1
    /\ hookPc' = IF window' # None /\ Len(ThenBlock) > 0 THEN "block" ELSE "ret"
    /\ UNCHANGED <<hookCalls, hookRet, log>>
    /\ UNCHANGED <<progVars, fwVars, winVars>>

\* One statement of the then-block (lines 9-10): the request is issued on
\* the window handle, the framework answers Ok or Err, and the statement
\* disposes of the answer as StatementOutcome says.
HookRequest ==
    /\ InHook
    /\ hookPc = "block"
    /\ hidx <= Len(ThenBlock)
    /\ \E res \in Results :
         LET op == ThenBlock[hidx]
             o  == StatementOutcome(op, res)
             last == hidx + 1 > Len(ThenBlock)
         IN
         /\ log' = Append(log, [op |-> op, label |-> window, res |-> res])
         /\ visible' = IF op = "show" /\ res = "Ok"
                       THEN visible \cup {window} ELSE visible
         /\ focused' = IF op = "set_focus" /\ res = "Ok"
                       THEN window ELSE focused
         /\ hidx' = hidx + 1
         /\ hookPc' = CASE o = "continue"   -> IF last THEN "ret" ELSE "block"
                        [] o = "skip_rest"  -> "ret"
                        [] o = "return_err" -> "done"
                        [] o = "panic"      -> "done"
         /\ hookRet' = IF o = "return_err" THEN "Err" ELSE hookRet
         /\ term' = IF o = "panic" THEN "panicked" ELSE term
         /\ panicMsg' = IF o = "panic"
                        THEN <<"called Result::unwrap() on an Err value", "Window">>
                        ELSE panicMsg
    /\ UNCHANGED <<windows, hookCalls, window>>
    /\ UNCHANGED <<pc, calls, builder, fwVars>>

\* Ok(()) (line 12): the closure returns.
HookReturn ==
    /\ InHook
    /\ hookPc = "ret"
    /\ hookRet' = HookReturnValue(window)
    /\ hookPc' = "done"
    /\ UNCHANGED <<hookCalls, window, hidx, log>>
    /\ UNCHANGED <<progVars, fwVars, winVars>>

\* ------------------------------------------------------------------------
\* Specification
\* ------------------------------------------------------------------------
Next ==
    \/ BuilderDefault
    \/ RegisterPlugin
    \/ RegisterSetup
    \/ CallRun
    \/ Expect
    \/ FwCreateWindow
    \/ FwStartFails
    \/ FwInvokeSetup
    \/ FwSetupReturned
    \/ FwEvent
    \/ FwLoopExit
    \/ HookLookup
    \/ HookRequest
    \/ HookReturn

Spec == Init /\ [][Next]_vars

\* ------------------------------------------------------------------------
\* Properties
\* ------------------------------------------------------------------------

\* The number of requests op issued on the window w.
Requests(op, w) ==
    Cardinality({i \in DOMAIN log : log[i].op = op /\ log[i].label = w})

\* The calls of run() in the order the specification gives them.
StartupOrder == <<"default", "plugin", "setup", "run", "expect">>

IsPrefix(s, t) == Len(s) <= Len(t) /\ \A i \in 1..Len(s) : s[i] = t[i]

\* A step taken while the code of lib.rs is in control: the chain before
\* run is called, or the setup hook.
CodeInControl == fw \in {"idle", "setup"}

\* C1: when the setup hook is invoked while a window "main" exists, exactly
\* one show and exactly one set_focus request are issued on it over the
\* lifetime of the application: never more than one at any time, exactly one
\* of each when the hook has finished, and none after that.
C1_ShownAndFocusedExactlyOnce ==
    /\ [](\A op \in {"show", "set_focus"} : Requests(op, "main") <= 1)
    /\ []((fw = "setup" /\ hookPc = "done" /\ "main" \in windows)
            => /\ Requests("show", "main") = 1
               /\ Requests("set_focus", "main") = 1)
    /\ [][hookPc = "done" => log' = log]_vars

\* C1 witness: run() has returned after a hook that found "main" and issued
\* one show and one set_focus on it.
C1_Witness ==
    /\ term = "returned"
    /\ window = "main"
    /\ Requests("show", "main") = 1
    /\ Requests("set_focus", "main") = 1

\* C2: when the hook runs and no window "main" exists, it issues no request
\* on any window and returns Ok, startup goes on to the event loop as it
\* does when the window is found, and the miss never leads to a panic.
C2_MissingWindowTolerated ==
    /\ []((fw = "setup" /\ hookPc \in {"ret", "done"} /\ "main" \notin windows)
            => window = None)
    /\ []((hookPc = "done" /\ window = None)
            => /\ log = <<>>
               /\ hookRet = "Ok"
               /\ term # "panicked"
               /\ runRet # "Err"
               /\ fw \in {"setup", "loop", "stopped"})
    /\ [][(fw = "setup" /\ hookPc = "done") => fw' = "loop"]_vars

\* C2 witness: the event loop has started after a hook that found no "main"
\* window.
C2_Witness ==
    /\ fw = "loop"
    /\ hookPc = "done"
    /\ window = None
    /\ "main" \notin windows
    /\ events = 0
    /\ hookRet = "Ok"

\* C3: when run reports a failure the process ends in the panic state with
\* the message "error while running tauri application" (which expect
\* completes with the error it was given); run() neither
\* returns normally nor goes on executing after a failed run.
C3_RunFailurePanics ==
    /\ [](runRet = "Err" => term # "returned")
    /\ []((runRet = "Err" /\ term = "panicked")
            => (Len(panicMsg) = 2 /\
                panicMsg[1] = "error while running tauri application"))
    /\ [][runRet = "Err" => term' = "panicked"]_vars

\* C3 witness: run has failed and the process has panicked with the message.
C3_Witness ==
    /\ runRet = "Err"
    /\ term = "panicked"
    /\ panicMsg = <<"error while running tauri application", "Runtime">>

\* C4: the startup steps happen in the order plugin, setup, run; the hook
\* body executes at most once, only after run has been called and before
\* the event loop processes events; no request is issued before run is
\* called or after the event loop has started.
C4_StartupOrder ==
    /\ [](IsPrefix(calls, StartupOrder))
    /\ [](hookCalls <= 1)
    /\ [](hookPc # "idle" => "run" \in {calls[i] : i \in 1..Len(calls)})
    /\ [](fw \in {"loop", "stopped"} => hookPc \in {"idle", "done"})
    /\ [](hookPc \notin {"idle", "done"} => events = 0)
    /\ [][log' # log => /\ "run" \in {calls[i] : i \in 1..Len(calls)}
                        /\ fw = "setup" /\ fw' = "setup"
                        /\ events = 0]_vars

\* C4 witness: the event loop is processing events after a hook that
\* issued both requests.
C4_Witness ==
    /\ fw = "loop"
    /\ events > 0
    /\ Len(log) = 2
    /\ calls = <<"default", "plugin", "setup", "run">>
    /\ builder.plugins = <<"shell">>

\* C5: run() returns normally only after the event loop has terminated with
\* Ok; it has not returned while the framework is initializing, in setup or
\* in the event loop, nor after a failed start.
C5_RunBlocks ==
    term = "returned" => (fw = "stopped" /\ runRet = "Ok")

\* C5 witness: run() has returned after an event loop that processed events.
C5_Witness ==
    /\ term = "returned"
    /\ fw = "stopped"
    /\ events > 0

\* C6: every set_focus request on a window is preceded by a show request on
\* that window.
C6_ShowBeforeFocus ==
    \A i \in DOMAIN log :
        log[i].op = "set_focus"
            => \E j \in 1..(i - 1) :
                   log[j].op = "show" /\ log[j].label = log[i].label

\* C6 witness: show and then set_focus have been requested on "main".
C6_Witness ==
    /\ Len(log) = 2
    /\ log[1].op = "show"
    /\ log[2].op = "set_focus"
    /\ log[1].label = "main"

\* C7: the only requests of this code are show and set_focus on the window
\* "main"; while this code is in control no window is created or closed,
\* no window other than "main" changes, and "main" is not hidden and does
\* not lose focus to another window.
C7_OnlyMainTouched ==
    /\ [](\A i \in DOMAIN log :
            log[i].label = "main" /\ log[i].op \in {"show", "set_focus"})
    /\ [][CodeInControl
            => /\ windows' = windows
               /\ visible' \ {"main"} = visible \ {"main"}
               /\ visible \subseteq visible'
               /\ focused' \in {focused, "main"}]_vars

\* C7 witness: another window exists and is untouched while "main" has been
\* shown and focused by the hook.
C7_Witness ==
    /\ hookPc = "done"
    /\ fw = "setup"
    /\ "settings" \in windows
    /\ "settings" \notin visible
    /\ "main" \in visible
    /\ focused = "main"
    /\ Len(log) = 2

C9_HookReturnsOk ==
    /\ hookRet \in {None, "Ok"}
    /\ hookPc = "done" => hookRet = "Ok"
    /\ (\E i \in DOMAIN log : log[i].res = "Err") => runErr # "Setup"

\* C9 witness: the hook has returned Ok after show and set_focus both
\* failed, and the event loop has started.
C9_Witness ==
    /\ hookRet = "Ok"
    /\ fw = "loop"
    /\ Len(log) = 2
    /\ \A i \in DOMAIN log : log[i].res = "Err"

\* C10: when the window is found, set_focus is requested whether show
\* succeeded or failed: the request after a show is a set_focus, the hook
\* does not finish without it, and no request is issued twice.
C10_FocusRegardlessOfShow ==
    /\ \A i \in DOMAIN log :
           (log[i].op = "show" /\ i < Len(log)) => log[i + 1].op = "set_focus"
    /\ (hookPc \in {"ret", "done"} /\ window # None)
           => /\ Requests("show", window) = 1
              /\ Requests("set_focus", window) = 1
    /\ \A op \in {"show", "set_focus"}, w \in Labels : Requests(op, w) <= 1

\* C10 witness: show failed and set_focus was requested all the same.
C10_Witness ==
    /\ Len(log) = 2
    /\ log[1] = [op |-> "show", label |-> "main", res |-> "Err"]
    /\ log[2].op = "set_focus"
    /\ hookPc = "done"

====
